---- MODULE Spec2Model ----
(***************************************************************************)
(* A model of the health-monitoring and recovery logic of the fire/leaves  *)
(* detection pipeline:                                                     *)
(*   - the supervisor (start_complete_system.py): launch, monitor thread,  *)
(*     restart budget;                                                     *)
(*   - the inference worker (server/ai_server.py): request counter, GC     *)
(*     and model reload schedule, the model table;                         *)
(*   - the capture client (esp32_cam_simulator.py): the alarm flag with    *)
(*     its grace window, the failure count and the delays of the loop,     *)
(*     start(), stop() and the threads of the capture loop;                *)
(*   - the dashboard (fire_detection_dashboard.py): the current task, the  *)
(*     stored detections and the statistics per task.                      *)
(* The components are separate operating-system processes; each has        *)
(* its own specification over its own variables, the others' variables     *)
(* staying at their initial values.                                        *)
(***************************************************************************)
EXTENDS Integers, Sequences, FiniteSets, TLC

VARIABLES
    \* ---- supervisor (CompleteFireDetectionSystem) ----
    processes,               \* self.processes: sequence of [name, pid]
    proc,                    \* every process spawned so far: pid -> [name, status]
    main_pc,                 \* position of the main thread in launch()
    mon_pc,                  \* position of the monitor thread in monitor_loop
    iter_list,               \* the list object the for loop of the pass iterates
    idx,                     \* index of that loop (1-based)
    ai_server_responsive,    \* local of monitor_loop
    ai_server_restart_count, \* local of monitor_loop
    running_processes,       \* local of monitor_loop: names found alive
    printed,                 \* the reports the monitor has printed in its pass
    sd_list,                 \* the list object the loop of shutdown_system iterates
    sd_idx,                  \* index of that loop (1-based)
    \* history variables of the supervisor (not program state)
    relaunches,              \* number of start_ai_server calls made by the monitor
    crashes,                 \* number of times the table's worker exited on its own
    monitor_killed,          \* pids the monitor terminated while they were alive
    probe_failed,            \* pids whose latest monitor probe failed
    fault_seen,              \* a probe failed or a start did not come up
    last_termination,        \* what the monitor last did to stop a worker
    exit_in_probe,           \* pids that exited between the liveness test and
                             \* the end of the probe of the same pass
    \* ---- inference worker (ai_server.py module globals) ----
    request_counter,         \* global request_counter
    last_model_reload,       \* global last_model_reload
    models,                  \* global models: the names in the model table
    \* history variables of the worker
    call,                    \* what the latest detect call (handled alone) did
    reload_failures,         \* number of reloads that raised so far
    \* ---- worker request threads (detect calls running concurrently) ----
    thr,                     \* thread -> [pc, model, tmp, todo, status]
    started,                 \* number of concurrent detect calls begun
    \* history variables of the request threads
    gc_runs,                 \* number of scheduled cleanups run
    reloads,                 \* number of reloads begun
    \* ---- capture client (ESP32CAMSimulator) ----
    now,                     \* the clock read by datetime.now(), in ticks
    current_task,            \* self.current_task
    fire_on,                 \* self.fire_on
    last_detection_time,     \* self.last_detection_time (NoTime for None)
    last_record,             \* self.detection_history[-1] (NoRecord if empty)
    frame_rate,              \* self.frame_rate, in frames per ten seconds
    request_count,           \* self.request_count
    consecutive_failures,    \* self.consecutive_failures
    \* history variables of the client
    last_cycle,              \* what the latest capture cycle did
    positive_tasks,          \* the tasks that have had a positive result
    \* ---- capture client: start(), stop() and the loop threads ----
    use_laptop_camera,       \* self.use_laptop_camera
    is_running,              \* self.is_running
    camera,                  \* self.camera: "none", "open" or "released"
    capture_thread,          \* self.capture_thread (NoThread for None)
    loops,                   \* thread -> [pc, last]: the threads of _capture_loop
    api_pc,                  \* position of the caller of start() and stop()
    \* ---- dashboard (FireDetectionDashboard) ----
    dashboard_task,          \* self.current_task of the dashboard
    fire_detections,         \* table fire_detections: sequence of [task, fire_detected]
    device_status,           \* table device_status: device -> row
    test_pending,            \* model of a test image that is with the worker
    \* history variable of the dashboard
    recorded                 \* task -> number of rows and of alerts stored under it

supVars == <<processes, proc, main_pc, mon_pc, iter_list, idx,
             ai_server_responsive, ai_server_restart_count,
             running_processes, printed, sd_list, sd_idx,
             relaunches, crashes, monitor_killed, probe_failed, fault_seen,
             last_termination, exit_in_probe>>

workerVars == <<request_counter, last_model_reload, models, call, reload_failures>>

thrVars == <<thr, started, gc_runs, reloads>>

clientVars == <<now, current_task, fire_on, last_detection_time, last_record,
                frame_rate, request_count, consecutive_failures,
                last_cycle, positive_tasks>>

lifeVars == <<use_laptop_camera, is_running, camera, capture_thread, loops, api_pc>>

dashVars == <<dashboard_task, fire_detections, device_status, test_pending,
              recorded>>

vars == <<supVars, workerVars, thrVars, clientVars, lifeVars, dashVars>>

notSup == <<call, reload_failures, request_counter, last_model_reload, models,
            thrVars, clientVars, lifeVars, dashVars>>

-----------------------------------------------------------------------------
(* Supervisor: start_complete_system.py                                    *)

AI_SERVER == "AI Server"
DASHBOARD == "Dashboard"
ESP32_SIM == "ESP32-CAM Simulator"

\* max_ai_server_restarts = 3
max_ai_server_restarts == 3

\* What a start_* call can end in: the process answers its probe ("ok"), the
\* process exits during startup ("died"), or (AI server only) it never answers
\* within the 30 polls ("timeout").
StartOutcomes == {"ok", "died", "timeout"}

\* for attempt in range(30)
startup_polls == 30

\* The polls of start_ai_server from attempt on.  diedAt is the first poll
\* at which process.poll() finds the process exited, okAt the first poll at
\* which the status request is answered with 200 (0: never).  Each poll
\* tests the process first and probes only a process found alive; after the
\* last poll the process is sent terminate().
RECURSIVE StartAIServerFrom(_, _, _)
StartAIServerFrom(attempt, diedAt, okAt) ==
    IF attempt > startup_polls THEN "timeout"
    ELSE IF diedAt # 0 /\ diedAt <= attempt THEN "died"
    ELSE IF okAt # 0 /\ okAt <= attempt THEN "ok"
    ELSE StartAIServerFrom(attempt + 1, diedAt, okAt)

StartAIServer(diedAt, okAt) == StartAIServerFrom(1, diedAt, okAt)

\* The polls at which a started process is followed to exit or to answer:
\* never, at the first poll, at the last poll, after the last poll.
StartupTimes == {0, 1, startup_polls, startup_polls + 1}

\* State of the spawned process when start_ai_server returns: on "timeout" it
\* has been sent terminate() and is not waited for.
SpawnStatus(outcome) ==
    CASE outcome = "ok"      -> "running"
      [] outcome = "died"    -> "exited"
      [] outcome = "timeout" -> "terminating"

\* A start that returns the process unless it died (as start_dashboard does).
StartReturnsProcess_UnlessDied(outcome) == outcome # "died"

\* start_ai_server returns the process only on a 200 answer, else None.
StartReturnsProcess(outcome) == outcome = "ok"

\* process.poll() is None
IsAlive(pid) == proc[pid].status # "exited"

\* [(n, p) for n, p in self.processes if n != "AI Server"]
RemoveAIServer(ps) == SelectSeq(ps, LAMBDA e : e.name # AI_SERVER)

\* The dead-process guard without its budget test.
DeadRestartGuard_NoBudget(name, count) == name = AI_SERVER

\* Guard of the dead-process branch: name == "AI Server" and count < max.
DeadRestartGuard(name, count) ==
    name = AI_SERVER /\ count < max_ai_server_restarts

\* any(name == "AI Server" for name, process in self.processes
\*     if process and process.poll() is None)
AIServerProcessRunning ==
    \E i \in DOMAIN processes :
        processes[i].name = AI_SERVER /\ IsAlive(processes[i].pid)

\* The unresponsive guard without its budget test.
UnresponsiveGuard_NoBudget(running, responsive, count) ==
    running /\ ~responsive

\* Guard of the unresponsive branch.
UnresponsiveGuard(running, responsive, count) ==
    running /\ ~responsive /\ count < max_ai_server_restarts

\* The restart counter after a start attempt: incremented only inside
\* "if new_ai_server:".
CountAfterStart(count, outcome) ==
    IF StartReturnsProcess(outcome) THEN count + 1 ELSE count

\* The value of ai_server_responsive after a probe: 200 sets it, another
\* status leaves it, an exception (connection refused, timeout) clears it.
ResponsiveAfterProbe(old, result) ==
    CASE result = "ok"         -> TRUE
      [] result = "bad_status" -> old
      [] result = "error"      -> FALSE

\* What a probe of process pid can answer: a process that has exited no
\* longer listens, so the request raises.
ProbeResults(pid) ==
    IF IsAlive(pid) THEN {"ok", "bad_status", "error"} ELSE {"error"}

\* The effect of one start_* call on the process universe and on a table:
\* a new pid is spawned; the table gets the entry only when a process is
\* returned.
Spawn(name, outcome, table) ==
    /\ proc' = Append(proc, [name |-> name, status |-> SpawnStatus(outcome)])
    /\ processes' = IF StartReturnsProcess(outcome)
                    THEN Append(table, [name |-> name, pid |-> Len(proc) + 1])
                    ELSE table

\* The reports of the monitor, by the print statement that makes them.
\* After a probe: nothing on 200 (the request-count warnings aside), "responding
\* but not healthy" on another status, "not responding" on an exception.
ProbeReports(result) ==
    CASE result = "ok"         -> {}
      [] result = "bad_status" -> {<<"not_healthy", AI_SERVER>>}
      [] result = "error"      -> {<<"not_responding", AI_SERVER>>}

\* For an entry found stopped: "Process <name> has stopped", and "Attempting
\* to restart AI Server" when the dead-process branch is taken.
DeadReports(name, count) ==
    {<<"stopped", name>>}
    \cup (IF DeadRestartGuard(name, count)
          THEN {<<"attempting_restart", AI_SERVER>>} ELSE {})

\* After a start attempt of either branch.
RestartReports(branch, outcome) ==
    IF branch = "dead"
    THEN (IF StartReturnsProcess(outcome)
          THEN {<<"restarted", AI_SERVER>>} ELSE {<<"restart_failed", AI_SERVER>>})
    ELSE (IF StartReturnsProcess(outcome)
          THEN {<<"unresponsive_restarted", AI_SERVER>>}
          ELSE {<<"unresponsive_restart_failed", AI_SERVER>>})

\* After the loop: "Running processes: ..." when the number found alive is
\* not the length of the table, and "running but unresponsive - forcing
\* restart" when the unresponsive branch is taken.
CheckReports(running, table, forcing) ==
    (IF Len(running) # Len(table)
     THEN {<<"running_processes",
             IF \E i \in DOMAIN running : running[i] = AI_SERVER
             THEN "with AI Server" ELSE "without AI Server">>}
     ELSE {})
    \cup (IF forcing THEN {<<"forcing_restart", AI_SERVER>>} ELSE {})

\* process.wait(timeout=5) returns, or raises TimeoutExpired.
WaitOutcomes == {"exited", "expired"}

\* A termination that kills at once.
TerminateSteps_KillAtOnce(waitOutcome) == <<"kill">>

\* terminate(); wait(timeout=5); kill() in the except branch only.
TerminateSteps(waitOutcome) ==
    IF waitOutcome = "exited"
    THEN <<"terminate", "wait">>
    ELSE <<"terminate", "wait_expired", "kill">>

NoTermination == [pids |-> {}, steps |-> <<>>]

\* shutdown_system: every table entry that is alive is terminated (and
\* killed after the grace period), then the table is cleared.
ShutdownProc ==
    [p \in DOMAIN proc |->
        IF (\E i \in DOMAIN processes : processes[i].pid = p) /\ IsAlive(p)
        THEN [proc[p] EXCEPT !.status = "exited"]
        ELSE proc[p]]

InitSup ==
    /\ processes = <<>>
    /\ proc = <<>>
    /\ main_pc = "launch_ai"
    /\ mon_pc = "not_started"
    /\ iter_list = <<>>
    /\ idx = 1
    /\ ai_server_responsive = FALSE
    /\ ai_server_restart_count = 0
    /\ relaunches = 0
    /\ crashes = 0
    /\ monitor_killed = {}
    /\ probe_failed = {}
    /\ fault_seen = FALSE
    /\ running_processes = <<>>
    /\ printed = {}
    /\ last_termination = NoTermination
    /\ sd_list = <<>>
    /\ sd_idx = 1
    /\ exit_in_probe = {}

monLocals == <<mon_pc, iter_list, idx, ai_server_responsive, ai_server_restart_count,
               running_processes, printed>>
sdLocals == <<sd_list, sd_idx>>
supHistory == <<relaunches, crashes, monitor_killed, probe_failed, fault_seen,
                last_termination, exit_in_probe>>

\* The monitor is a daemon thread without a stop flag: it runs from
\* monitor_processes() until the interpreter exits.
MonitorRuns == main_pc \in {"monitoring", "shutdown", "shutdown_done"}

\* launch(): ai_server = self.start_ai_server(); without it launch returns.
LaunchAIServer ==
    /\ main_pc = "launch_ai"
    /\ \E diedAt \in StartupTimes, okAt \in StartupTimes :
        LET outcome == StartAIServer(diedAt, okAt)
        IN  /\ Spawn(AI_SERVER, outcome, processes)
            /\ main_pc' = IF StartReturnsProcess(outcome)
                          THEN "launch_dashboard" ELSE "exited"
    /\ UNCHANGED <<monLocals, supHistory>>
    /\ UNCHANGED <<sdLocals, notSup>>

\* launch(): dashboard = self.start_dashboard(); it returns the process
\* unless the process died while starting; without it shutdown_system runs.
LaunchDashboard ==
    /\ main_pc = "launch_dashboard"
    /\ \E outcome \in {"ok", "died"} :
        IF StartReturnsProcess(outcome)
        THEN /\ Spawn(DASHBOARD, outcome, processes)
             /\ main_pc' = "launch_esp32"
        ELSE /\ proc' = Append(ShutdownProc,
                               [name |-> DASHBOARD, status |-> "exited"])
             /\ processes' = <<>>
             /\ main_pc' = "exited"
    /\ UNCHANGED <<monLocals, supHistory>>
    /\ UNCHANGED <<sdLocals, notSup>>

\* launch(): the simulator is optional; then monitor_processes() starts the
\* monitor thread and the main thread sleeps in its loop.
LaunchSimulator ==
    /\ main_pc = "launch_esp32"
    /\ \E outcome \in {"ok", "died"} : Spawn(ESP32_SIM, outcome, processes)
    /\ main_pc' = "monitoring"
    /\ mon_pc' = "sleep"
    /\ UNCHANGED <<iter_list, idx, ai_server_responsive,
                   ai_server_restart_count, running_processes, printed,
                   supHistory>>
    /\ UNCHANGED <<sdLocals, notSup>>

\* signal_handler: sys.exit(0) in the main thread; the SystemExit passes both
\* except clauses of launch(), the interpreter exits and the daemon monitor
\* thread ends with it.
Signal ==
    /\ main_pc # "exited"
    /\ main_pc' = "exited"
    /\ UNCHANGED <<processes, proc, monLocals, supHistory>>
    /\ UNCHANGED <<sdLocals, notSup>>

\* Environment: a spawned process exits (on its own, or after terminate()).
ProcessExits ==
    /\ main_pc # "exited"
    /\ \E p \in DOMAIN proc :
        /\ IsAlive(p)
        /\ proc' = [proc EXCEPT ![p].status = "exited"]
        /\ crashes' = IF /\ proc[p].name = AI_SERVER
                         /\ proc[p].status = "running"
                         /\ \E i \in DOMAIN processes : processes[i].pid = p
                      THEN crashes + 1 ELSE crashes
        /\ exit_in_probe' = IF mon_pc = "probe" /\ iter_list[idx].pid = p
                            THEN exit_in_probe \cup {p} ELSE exit_in_probe
    /\ UNCHANGED <<processes, main_pc, monLocals,
                   relaunches, monitor_killed, probe_failed, fault_seen,
                   last_termination>>
    /\ UNCHANGED <<sdLocals, notSup>>

\* monitor_loop: time.sleep(10), then the pass begins.
MonitorWake ==
    /\ MonitorRuns /\ mon_pc = "sleep"
    /\ iter_list' = processes
    /\ idx' = 1
    /\ ai_server_responsive' = FALSE
    /\ running_processes' = <<>>
    /\ printed' = {}
    /\ mon_pc' = "scan"
    /\ UNCHANGED <<processes, proc, main_pc, ai_server_restart_count, supHistory>>
    /\ UNCHANGED <<sdLocals, notSup>>

\* for (name, process) in self.processes: the entry is alive.
MonitorScanAlive ==
    /\ MonitorRuns /\ mon_pc = "scan"
    /\ idx <= Len(iter_list)
    /\ IsAlive(iter_list[idx].pid)
    /\ running_processes' = Append(running_processes, iter_list[idx].name)
    /\ IF iter_list[idx].name = AI_SERVER
       THEN mon_pc' = "probe" /\ idx' = idx
       ELSE mon_pc' = "scan" /\ idx' = idx + 1
    /\ UNCHANGED <<processes, proc, main_pc, iter_list, ai_server_responsive,
                   ai_server_restart_count, printed, supHistory>>
    /\ UNCHANGED <<sdLocals, notSup>>

\* The health probe of the AI server entry.
MonitorProbe ==
    /\ MonitorRuns /\ mon_pc = "probe"
    /\ \E result \in ProbeResults(iter_list[idx].pid) :
        /\ ai_server_responsive' = ResponsiveAfterProbe(ai_server_responsive, result)
        /\ probe_failed' = IF result = "ok"
                           THEN probe_failed \ {iter_list[idx].pid}
                           ELSE probe_failed \cup {iter_list[idx].pid}
        /\ fault_seen' = (fault_seen \/ result # "ok")
        /\ printed' = printed \cup ProbeReports(result)
    /\ idx' = idx + 1
    /\ mon_pc' = "scan"
    /\ UNCHANGED <<processes, proc, main_pc, iter_list, ai_server_restart_count,
                   running_processes, relaunches, crashes, monitor_killed,
                   last_termination, exit_in_probe>>
    /\ UNCHANGED <<sdLocals, notSup>>

\* for (name, process) in self.processes: the entry has stopped.
MonitorScanDead ==
    /\ MonitorRuns /\ mon_pc = "scan"
    /\ idx <= Len(iter_list)
    /\ ~IsAlive(iter_list[idx].pid)
    /\ printed' = printed \cup DeadReports(iter_list[idx].name, ai_server_restart_count)
    /\ IF DeadRestartGuard(iter_list[idx].name, ai_server_restart_count)
       THEN mon_pc' = "restart_dead" /\ idx' = idx
       ELSE mon_pc' = "scan" /\ idx' = idx + 1
    /\ UNCHANGED <<processes, proc, main_pc, iter_list, ai_server_responsive,
                   ai_server_restart_count, running_processes, supHistory>>
    /\ UNCHANGED <<sdLocals, notSup>>

\* Dead branch: the entry is removed from the table (a new list is bound to
\* self.processes, the loop goes on over the old one) and the server started.
MonitorRestartDead ==
    /\ MonitorRuns /\ mon_pc = "restart_dead"
    /\ \E diedAt \in StartupTimes, okAt \in StartupTimes :
        LET outcome == StartAIServer(diedAt, okAt)
        IN  /\ Spawn(AI_SERVER, outcome, RemoveAIServer(processes))
            /\ ai_server_restart_count' =
                  CountAfterStart(ai_server_restart_count, outcome)
            /\ fault_seen' = (fault_seen \/ ~StartReturnsProcess(outcome))
            /\ printed' = printed \cup RestartReports("dead", outcome)
    /\ relaunches' = relaunches + 1
    /\ idx' = idx + 1
    /\ mon_pc' = "scan"
    /\ UNCHANGED <<main_pc, iter_list, ai_server_responsive, running_processes,
                   crashes, monitor_killed, probe_failed, last_termination,
                   exit_in_probe>>
    /\ UNCHANGED <<sdLocals, notSup>>

\* End of the for loop: the list of running processes is printed when it is
\* shorter than the table, then the unresponsive check.
MonitorCheck ==
    /\ MonitorRuns /\ mon_pc = "scan"
    /\ idx > Len(iter_list)
    /\ printed' = printed \cup CheckReports(running_processes, processes,
                      UnresponsiveGuard(AIServerProcessRunning, ai_server_responsive,
                                        ai_server_restart_count))
    /\ mon_pc' = IF UnresponsiveGuard(AIServerProcessRunning, ai_server_responsive,
                                      ai_server_restart_count)
                 THEN "kill" ELSE "sleep"
    /\ UNCHANGED <<processes, proc, main_pc, iter_list, idx, ai_server_responsive,
                   ai_server_restart_count, running_processes, supHistory>>
    /\ UNCHANGED <<sdLocals, notSup>>

\* Unresponsive branch: terminate(), wait(timeout=5), kill() on failure, for
\* every AI server entry of the table; then the entry is removed.  The wait
\* of an entry that has already exited returns at once.
MonitorKill ==
    /\ MonitorRuns /\ mon_pc = "kill"
    /\ LET entries == {p \in DOMAIN proc :
                         \E i \in DOMAIN processes :
                             processes[i].pid = p /\ processes[i].name = AI_SERVER}
           victims == {p \in entries : IsAlive(p)}
       IN /\ proc' = [p \in DOMAIN proc |->
                        IF p \in victims THEN [proc[p] EXCEPT !.status = "exited"]
                        ELSE proc[p]]
          /\ monitor_killed' = monitor_killed \cup victims
          /\ \E w \in [entries -> WaitOutcomes] :
                /\ \A p \in entries \ victims : w[p] = "exited"
                /\ last_termination' =
                      [pids |-> entries,
                       steps |-> [p \in entries |-> TerminateSteps(w[p])]]
    /\ processes' = RemoveAIServer(processes)
    /\ mon_pc' = "restart_unresponsive"
    /\ UNCHANGED <<main_pc, iter_list, idx, ai_server_responsive,
                   ai_server_restart_count, running_processes, printed,
                   relaunches, crashes, probe_failed, fault_seen,
                   exit_in_probe>>
    /\ UNCHANGED <<sdLocals, notSup>>

\* Unresponsive branch: time.sleep(2), start_ai_server(), the pass ends.
MonitorRestartUnresponsive ==
    /\ MonitorRuns /\ mon_pc = "restart_unresponsive"
    /\ \E diedAt \in StartupTimes, okAt \in StartupTimes :
        LET outcome == StartAIServer(diedAt, okAt)
        IN  /\ Spawn(AI_SERVER, outcome, processes)
            /\ ai_server_restart_count' =
                  CountAfterStart(ai_server_restart_count, outcome)
            /\ fault_seen' = (fault_seen \/ ~StartReturnsProcess(outcome))
            /\ printed' = printed \cup RestartReports("unresponsive", outcome)
    /\ relaunches' = relaunches + 1
    /\ mon_pc' = "sleep"
    /\ UNCHANGED <<main_pc, iter_list, idx, ai_server_responsive, running_processes,
                   crashes, monitor_killed, probe_failed, last_termination,
                   exit_in_probe>>
    /\ UNCHANGED <<sdLocals, notSup>>

NextSup ==
    \/ LaunchAIServer
    \/ LaunchDashboard
    \/ LaunchSimulator
    \/ Signal
    \/ ProcessExits
    \/ MonitorWake
    \/ MonitorScanAlive
    \/ MonitorProbe
    \/ MonitorScanDead
    \/ MonitorRestartDead
    \/ MonitorCheck
    \/ MonitorKill
    \/ MonitorRestartUnresponsive

\* launch(): a KeyboardInterrupt reaches the main thread in its sleep loop
\* (launch() run without the handlers main() installs); the except clause
\* calls shutdown_system, whose loop iterates the list bound to
\* self.processes at that moment.
Interrupt ==
    /\ main_pc = "monitoring"
    /\ main_pc' = "shutdown"
    /\ sd_list' = processes
    /\ sd_idx' = 1
    /\ UNCHANGED <<processes, proc, monLocals, supHistory>>
    /\ UNCHANGED notSup

\* shutdown_system, one entry of its loop: an entry found alive gets
\* terminate(), wait(timeout=5) and, on TimeoutExpired, kill() and wait().
ShutdownEntry ==
    /\ main_pc = "shutdown"
    /\ sd_idx <= Len(sd_list)
    /\ proc' = IF IsAlive(sd_list[sd_idx].pid)
               THEN [proc EXCEPT ![sd_list[sd_idx].pid].status = "exited"]
               ELSE proc
    /\ sd_idx' = sd_idx + 1
    /\ UNCHANGED <<processes, main_pc, sd_list, monLocals, supHistory>>
    /\ UNCHANGED notSup

\* shutdown_system after its loop: self.processes.clear() empties the list
\* bound to self.processes now, and shutdown_system returns.
ShutdownClear ==
    /\ main_pc = "shutdown"
    /\ sd_idx > Len(sd_list)
    /\ processes' = <<>>
    /\ main_pc' = "shutdown_done"
    /\ UNCHANGED <<proc, sdLocals, monLocals, supHistory>>
    /\ UNCHANGED notSup

\* launch() prints "System shutdown complete" and returns, main() returns
\* and the interpreter exits, the daemon monitor thread with it.
LaunchReturns ==
    /\ main_pc = "shutdown_done"
    /\ main_pc' = "exited"
    /\ UNCHANGED <<processes, proc, sdLocals, monLocals, supHistory>>
    /\ UNCHANGED notSup

NextSupShutdown ==
    \/ NextSup
    \/ Interrupt
    \/ ShutdownEntry
    \/ ShutdownClear
    \/ LaunchReturns

-----------------------------------------------------------------------------
(* Inference worker: server/ai_server.py                                   *)

\* if request_counter % 20 == 0
gc_interval == 20
\* if request_counter - last_model_reload >= 100
reload_interval == 100
\* if request_counter > 200: gc.collect()
post_gc_threshold == 200

\* Number of detect calls the sequential worker is followed for.
MaxRequests == 305
\* Number of reloads that may raise in one run.
MaxReloadFailures == 2

\* The .pt files in models/, by model name, in the order os.listdir yields
\* them (CONFIG["task_models"]).
ArtifactOrder == <<"fire_detection_final", "yellow-leaves-best">>
Artifacts == {ArtifactOrder[i] : i \in DOMAIN ArtifactOrder}

\* CONFIG["default_model"] without ".pt": the name used when the request
\* names no model; no artifact has this name.
DefaultModel == "fire_detect_final"
ModelNames == Artifacts \cup {DefaultModel}

\* What a request can be: not declared as JSON (request.is_json is false),
\* declared as JSON with a body that does not parse, the JSON value null, a
\* JSON object without "image", an image that does not decode, an image on
\* which inference raises, a good request.
RequestKinds == {"not_json", "malformed_json", "json_null", "no_image",
                 "bad_image", "infer_error", "good"}

\* A cleanup schedule of every 50 requests.
DueForGC_Every50(counter) == counter % 50 = 0

\* request_counter % 20 == 0
DueForGC(counter) == counter % gc_interval = 0

\* request_counter - last_model_reload >= 100
DueForReload(counter, last) == counter - last >= reload_interval

\* load_models(): every artifact whose YOLO(...) does not raise is put in
\* the table; a load that raises is logged and skipped.
LoadModels(table, loadFail) == table \cup (Artifacts \ loadFail)

\* A reload that keeps the old baseline.
ReloadModels_KeepBaseline(counter, last, tryFails, retryFails, loadFail) ==
    [models |-> LoadModels({}, loadFail), last |-> last]

\* The body of reload_models_if_needed once the reload is due.  The table is
\* emptied first.  tryFails: something after that raises inside the try
\* (gc, the accelerator cache flush, the directory listing of load_models),
\* so the baseline is not moved and the except branch calls load_models()
\* again; retryFails: that second call raises too.
ReloadModels(counter, last, tryFails, retryFails, loadFail) ==
    IF ~tryFails
    THEN [models |-> LoadModels({}, loadFail), last |-> counter]
    ELSE [models |-> IF retryFails THEN {} ELSE LoadModels({}, loadFail),
          last   |-> last]

\* The artifacts whose own load raised during a reload: the load loop runs
\* unless both load_models() calls raise before it.
FailedToReload(tryFails, retryFails, loadFail) ==
    IF tryFails /\ retryFails THEN {} ELSE loadFail

\* The HTTP status of a detect call, in the order of the checks.  A body
\* that does not parse makes request.get_json() raise BadRequest, and the
\* value null makes '"image" not in data' raise TypeError: both are inside
\* the try and end in the handler of "except Exception".
ResponseStatus(kind, model, table) ==
    IF kind = "not_json" THEN 400
    ELSE IF kind = "malformed_json" THEN 500
    ELSE IF kind = "json_null" THEN 500
    ELSE IF kind = "no_image" THEN 400
    ELSE IF model \notin table THEN 400
    ELSE IF kind = "bad_image" THEN 400
    ELSE IF kind = "infer_error" THEN 500
    ELSE 200

\* The gc.collect() calls of one detect call, by the place that makes them:
\* the scheduled cleanup, the reload, and the one at the end of a processed
\* request once the counter is above 200.
GCPasses(counter, reloaded, status) ==
    (IF DueForGC(counter) THEN {"interval"} ELSE {})
    \cup (IF reloaded THEN {"reload"} ELSE {})
    \cup (IF status = 200 /\ counter > post_gc_threshold THEN {"post"} ELSE {})

NoCall == [n |-> 0, status |-> 0, model |-> DefaultModel, gc |-> {},
           reloaded |-> FALSE, reload_ok |-> FALSE, before |-> {}, failed |-> {},
           kind |-> "none", table |-> {}]

\* get_status: the fields of the answer of GET /api/status that depend on
\* the worker's state.
GetStatus ==
    [status |-> "online",
     models_loaded |-> Cardinality(models),
     available_models |-> models,
     request_count |-> request_counter,
     next_cleanup_at |-> ((request_counter \div gc_interval) + 1) * gc_interval,
     last_model_reload |-> last_model_reload,
     requests_since_model_reload |-> request_counter - last_model_reload,
     next_model_reload_at |-> last_model_reload + reload_interval]

InitWorker ==
    /\ request_counter = 0
    /\ last_model_reload = 0
    /\ models = Artifacts
    /\ call = NoCall
    /\ reload_failures = 0

notWorker == <<supVars, thrVars, clientVars, lifeVars, dashVars>>

\* detect_objects, one call handled alone from its first line to its return.
Detect ==
    /\ request_counter < MaxRequests
    /\ \E kind \in RequestKinds, m \in ModelNames,
          tryFails \in BOOLEAN, retryFails \in BOOLEAN,
          loadFail \in SUBSET Artifacts :
        LET c   == request_counter + 1
            due == DueForReload(c, last_model_reload)
            r   == IF due
                   THEN ReloadModels(c, last_model_reload, tryFails, retryFails, loadFail)
                   ELSE [models |-> models, last |-> last_model_reload]
            st  == ResponseStatus(kind, m, r.models)
        IN  /\ ~due => (~tryFails /\ loadFail = {})
            /\ ~tryFails => ~retryFails
            /\ tryFails => reload_failures < MaxReloadFailures
            /\ request_counter' = c
            /\ models' = r.models
            /\ last_model_reload' = r.last
            /\ reload_failures' = IF tryFails THEN reload_failures + 1
                                  ELSE reload_failures
            /\ call' = [n |-> c, status |-> st, model |-> m,
                        gc |-> GCPasses(c, due, st),
                        reloaded |-> due,
                        reload_ok |-> due /\ ~tryFails,
                        before |-> IF due THEN models ELSE {},
                        failed |-> IF due
                                   THEN FailedToReload(tryFails, retryFails, loadFail)
                                   ELSE {},
                        kind |-> kind,
                        table |-> r.models]
    /\ UNCHANGED notWorker

NextWorker == Detect

-----------------------------------------------------------------------------
(* The worker under concurrent detect calls.  app.run() serves each request *)
(* in its own thread; the module globals are shared and no lock is taken.   *)
(* A step is one access to a shared global.                                 *)

Threads == {1, 2}

\* The concurrent calls are followed from a worker that has already served
\* this many requests, one at a time and without a reload falling due.
WarmRequests == 97
\* Number of detect calls that are then served concurrently.
MaxConcurrentRequests == 5

IdleThread == [pc |-> "idle", model |-> DefaultModel, tmp |-> 0,
               todo |-> <<>>, status |-> "none"]

InitThreads ==
    /\ thr = [t \in Threads |-> IdleThread]
    /\ started = 0
    /\ gc_runs = 0
    /\ reloads = 0

\* The worker after WarmRequests calls handled alone (no reload was due, so
\* the table and the baseline are those of the start).
InitWarmWorker ==
    /\ request_counter = WarmRequests
    /\ last_model_reload = 0
    /\ models = Artifacts
    /\ call = NoCall
    /\ reload_failures = 0

notThreads == <<supVars, clientVars, lifeVars, dashVars, call, reload_failures>>
thrHistory == <<gc_runs, reloads>>

\* list(models.keys()): the names in the table, in insertion order.
KeysOf(table) == SelectSeq(ArtifactOrder, LAMBDA k : k \in table)

\* A request arrives and its thread enters detect_objects.
TBegin(t) ==
    /\ thr[t].pc = "idle"
    /\ started < MaxConcurrentRequests
    /\ \E m \in ModelNames :
        thr' = [thr EXCEPT ![t] = [IdleThread EXCEPT !.pc = "load_counter",
                                                      !.model = m]]
    /\ started' = started + 1
    /\ UNCHANGED <<request_counter, last_model_reload, models, thrHistory>>
    /\ UNCHANGED notThreads

\* request_counter += 1, the read of the global.
TLoadCounter(t) ==
    /\ thr[t].pc = "load_counter"
    /\ thr' = [thr EXCEPT ![t].tmp = request_counter, ![t].pc = "store_counter"]
    /\ UNCHANGED <<started, request_counter, last_model_reload, models, thrHistory>>
    /\ UNCHANGED notThreads

\* request_counter += 1, the write of the global.
TStoreCounter(t) ==
    /\ thr[t].pc = "store_counter"
    /\ request_counter' = thr[t].tmp + 1
    /\ thr' = [thr EXCEPT ![t].pc = "gc_check"]
    /\ UNCHANGED <<started, last_model_reload, models, thrHistory>>
    /\ UNCHANGED notThreads

\* if request_counter % 20 == 0: the second read of the global, and the
\* scheduled cleanup when the value read is a multiple of the interval.
TGCCheck(t) ==
    /\ thr[t].pc = "gc_check"
    /\ gc_runs' = IF DueForGC(request_counter) THEN gc_runs + 1 ELSE gc_runs
    /\ thr' = [thr EXCEPT ![t].pc = "reload_check"]
    /\ UNCHANGED <<started, request_counter, last_model_reload, models, reloads>>
    /\ UNCHANGED notThreads

\* reload_models_if_needed: the test, and list(models.keys()) when it is due.
TReloadCheck(t) ==
    /\ thr[t].pc = "reload_check"
    /\ thr' = IF DueForReload(request_counter, last_model_reload)
              THEN [thr EXCEPT ![t].pc = "unload", ![t].todo = KeysOf(models)]
              ELSE [thr EXCEPT ![t].pc = "validate"]
    /\ reloads' = IF DueForReload(request_counter, last_model_reload)
                  THEN reloads + 1 ELSE reloads
    /\ UNCHANGED <<started, request_counter, last_model_reload, models, gc_runs>>
    /\ UNCHANGED notThreads

\* del models[model_name] for the next name of the list; a name another
\* thread has removed meanwhile raises KeyError, which the except branch of
\* the reload handles by calling load_models().
TUnload(t) ==
    /\ thr[t].pc = "unload"
    /\ thr[t].todo # <<>>
    /\ IF Head(thr[t].todo) \in models
       THEN /\ models' = models \ {Head(thr[t].todo)}
            /\ thr' = [thr EXCEPT ![t].todo = Tail(thr[t].todo)]
       ELSE /\ models' = models
            /\ thr' = [thr EXCEPT ![t].pc = "recover", ![t].todo = ArtifactOrder]
    /\ UNCHANGED <<started, request_counter, last_model_reload, thrHistory>>
    /\ UNCHANGED notThreads

\* models.clear(), then gc and the directory listing of load_models().
TClear(t) ==
    /\ thr[t].pc = "unload"
    /\ thr[t].todo = <<>>
    /\ models' = {}
    /\ thr' = [thr EXCEPT ![t].pc = "load", ![t].todo = ArtifactOrder]
    /\ UNCHANGED <<started, request_counter, last_model_reload, thrHistory>>
    /\ UNCHANGED notThreads

\* load_models(): models[model_name] = YOLO(model_path) for the next file,
\* in the try branch ("load") or in the except branch ("recover").
TLoad(t) ==
    /\ thr[t].pc \in {"load", "recover"}
    /\ thr[t].todo # <<>>
    /\ models' = models \cup {Head(thr[t].todo)}
    /\ thr' = [thr EXCEPT ![t].todo = Tail(thr[t].todo)]
    /\ UNCHANGED <<started, request_counter, last_model_reload, thrHistory>>
    /\ UNCHANGED notThreads

\* End of the reload: last_model_reload = request_counter in the try branch
\* only.
TReloadDone(t) ==
    /\ thr[t].pc \in {"load", "recover"}
    /\ thr[t].todo = <<>>
    /\ last_model_reload' = IF thr[t].pc = "load" THEN request_counter
                            ELSE last_model_reload
    /\ thr' = [thr EXCEPT ![t].pc = "validate"]
    /\ UNCHANGED <<started, request_counter, models, thrHistory>>
    /\ UNCHANGED notThreads

\* if model_name not in models: 400 with "Model ... not found".
TValidate(t) ==
    /\ thr[t].pc = "validate"
    /\ thr' = IF thr[t].model \in models
              THEN [thr EXCEPT ![t].pc = "lookup"]
              ELSE [thr EXCEPT ![t].pc = "done", ![t].status = "not_found"]
    /\ UNCHANGED <<started, request_counter, last_model_reload, models, thrHistory>>
    /\ UNCHANGED notThreads

\* model = models[model_name], after the image has been decoded; a missing
\* key raises KeyError and the call answers 500.
TLookup(t) ==
    /\ thr[t].pc = "lookup"
    /\ thr' = [thr EXCEPT ![t].pc = "done",
                          ![t].status = IF thr[t].model \in models
                                        THEN "ok" ELSE "key_error"]
    /\ UNCHANGED <<started, request_counter, last_model_reload, models, thrHistory>>
    /\ UNCHANGED notThreads

\* The response is returned.
TReturn(t) ==
    /\ thr[t].pc = "done"
    /\ thr' = [thr EXCEPT ![t] = IdleThread]
    /\ UNCHANGED <<started, request_counter, last_model_reload, models, thrHistory>>
    /\ UNCHANGED notThreads

NextWorkerConcurrent ==
    \E t \in Threads :
        \/ TBegin(t)
        \/ TLoadCounter(t)
        \/ TStoreCounter(t)
        \/ TGCCheck(t)
        \/ TReloadCheck(t)
        \/ TUnload(t)
        \/ TClear(t)
        \/ TLoad(t)
        \/ TReloadDone(t)
        \/ TValidate(t)
        \/ TLookup(t)
        \/ TReturn(t)

-----------------------------------------------------------------------------
(* Capture client: esp32_cam_simulator.py, the alarm flag                  *)

\* Resolution of the modelled clock: datetime has sub-second resolution.
TicksPerSecond == 2
\* The clock readings followed are those of the first MaxExtraSeconds
\* seconds of the run and of the same seconds one day later.
MaxExtraSeconds == 45

\* (datetime.now() - self.last_detection_time).seconds > 30
GraceSeconds == 30
\* timedelta.seconds is the seconds field of the difference, 0..86399.
SecondsPerDay == 86400
\* "threshold": 0.5 of the detect request, in percent.
request_threshold == 50

NoTime == -1
NoRecord == [timestamp |-> NoTime, task |-> "none", target_detected |-> FALSE,
             fire_on |-> 0, confidence |-> 0, result |-> {}]

Tasks == {"fire", "leaves"}

\* The time that passes between two reads of the clock: a cycle of ten
\* seconds, a slightly longer one, an outage of a day.
TimeSteps == {10 * TicksPerSecond, 10 * TicksPerSecond + 1,
              SecondsPerDay * TicksPerSecond}
Horizon == (SecondsPerDay + MaxExtraSeconds) * TicksPerSecond

\* The boxes a model can report: the fire model has the single class 0,
\* the leaves model class 0 'Yellow' and class 1 'Non-Yellow'.
Confidences == {30, 55, 60, 90}
ModelClasses(task) ==
    IF task = "fire" THEN {[class_id |-> 0, class |-> "Fire"]}
    ELSE {[class_id |-> 0, class |-> "Yellow"], [class_id |-> 1, class |-> "Non-Yellow"]}
Boxes(task) ==
    {[class_id |-> c.class_id, class |-> c.class, confidence |-> p] :
        c \in ModelClasses(task), p \in Confidences}
RawResults(task) == {r \in SUBSET Boxes(task) : Cardinality(r) <= 2}

\* detection.get("class", "").lower()
Lower(name) ==
    CASE name = "Fire"       -> "fire"
      [] name = "Yellow"     -> "yellow"
      [] name = "Non-Yellow" -> "non-yellow"
      [] OTHER               -> name

\* "fire" in class_name, "yellow" in class_name (substring tests)
ContainsFire(lname) == lname \in {"fire"}
ContainsYellow(lname) == lname \in {"yellow", "non-yellow"}

\* process_yolo_results: the worker returns the boxes at or above the
\* threshold of the request.
ProcessYoloResults(raw, threshold) == {b \in raw : b.confidence >= threshold}

\* The test of _process_detection_result for one detection.
IsTarget(task, d) ==
    \/ task = "fire" /\ (d.class_id = 0 \/ ContainsFire(Lower(d.class)))
    \/ task = "leaves" /\ (d.class_id = 0 \/ ContainsYellow(Lower(d.class)))

TargetDetections(task, detections) == {d \in detections : IsTarget(task, d)}

\* max_confidence: the largest confidence among the target detections, 0.0
\* without any.
MaxConfidence(ds) ==
    IF ds = {} THEN 0
    ELSE CHOOSE p \in {d.confidence : d \in ds} :
            \A d \in ds : d.confidence <= p

\* CONFIG["task_thresholds"] of the worker, in percent.
TaskThreshold(task) == IF task = "fire" THEN 15 ELSE 60

\* timedelta.seconds of a non-negative difference given in ticks.
TimedeltaSeconds(delta) == (delta \div TicksPerSecond) % SecondsPerDay

\* A grace test that is met as soon as the window is reached.
GraceElapsed_AtWindow(t, last) ==
    last # NoTime /\ TimedeltaSeconds(t - last) >= GraceSeconds

\* self.last_detection_time and
\* (datetime.now() - self.last_detection_time).seconds > 30
GraceElapsed(t, last) ==
    last # NoTime /\ TimedeltaSeconds(t - last) > GraceSeconds

\* self.fire_on after the status update of _process_detection_result.
FireOnAfter(old, target_detected, t, last) ==
    IF target_detected THEN 1
    ELSE IF GraceElapsed(t, last) THEN 0 ELSE old

\* What a call of _send_to_ai_server can end in: a 200 answer, another
\* status, a timeout of the request, a refused or broken connection.
CallOutcomes == {"ok", "bad_status", "timeout", "conn_error"}

\* timeout=15 of the detect request
request_timeout == 15
\* if self.request_count > 200 and self.consecutive_failures >= 2
high_request_count == 200
critical_failures == 2
\* time.sleep(5) of the timeout branch
critical_pause == 5
\* if self.consecutive_failures >= 3 (the health-critical report)
degraded_failures == 3
\* if self.consecutive_failures >= 5
backoff_failures == 5
\* time.sleep(10)
backoff_delay == 10
\* time.sleep(2) of the capture loop when no result came back
failure_pause == 2

\* The frame rates followed, in frames per ten seconds: 1 FPS (the value of
\* the shipped configuration) and one frame every five seconds.
FrameRates == {10, 2}
\* The frame rate of the shipped configuration.
DefaultFrameRate == 10
\* The request count of a client that has been running for a while.
WarmClientRequests == 199
\* Number of capture cycles it is then followed for.
MaxCycles == 5

\* frame_interval = 1.0 / self.frame_rate, in ticks
FrameInterval(rate) == (10 * TicksPerSecond) \div rate

\* The seconds the detect request takes: a timeout takes the whole timeout,
\* an answer or a refusal comes within the second.
RequestSeconds(kind) == IF kind = "timeout" THEN {request_timeout} ELSE {0}

\* A failure count that a success leaves alone.
FailuresAfter_KeepOnSuccess(failures, kind) ==
    IF kind = "ok" THEN failures ELSE failures + 1

\* self.consecutive_failures after the call: 0 on a 200 answer, one more on
\* another status and on an exception.
FailuresAfter(failures, kind) ==
    IF kind = "ok" THEN 0 ELSE failures + 1

\* The except branch of _send_to_ai_server is entered.
RaisesException(kind) == kind \in {"timeout", "conn_error"}

\* time.sleep(5): in the except branch, for an exception whose text has
\* "timeout", once request_count > 200 and the failures are at least 2.
CriticalPause(kind, count, failures) ==
    IF kind = "timeout" /\ count > high_request_count /\ failures >= critical_failures
    THEN critical_pause ELSE 0

\* time.sleep(10): in the except branch, inside "if failures >= 3", once the
\* failures are at least 5.
BackoffDelay(kind, failures) ==
    IF /\ RaisesException(kind)
       /\ failures >= degraded_failures
       /\ failures >= backoff_failures
    THEN backoff_delay ELSE 0

\* time.sleep(2) of the loop when _send_to_ai_server returned None.
FailurePause(kind) == IF kind = "ok" THEN 0 ELSE failure_pause

\* The time from the start of a cycle to the start of the next, in ticks:
\* elapsed = time.time() - start_time, then sleep max(0, interval - elapsed).
CycleDuration(rate, kind, secs, count, failures) ==
    LET elapsed == (secs + CriticalPause(kind, count, failures)
                         + BackoffDelay(kind, failures)
                         + FailurePause(kind)) * TicksPerSecond
        sleep_time == IF FrameInterval(rate) - elapsed > 0
                      THEN FrameInterval(rate) - elapsed ELSE 0
    IN  elapsed + sleep_time

\* The record of one cycle: how the call ended, the failure count before
\* it, the extra delay slept and the duration of the cycle.
CycleRecord(rate, kind, secs, count, failures) ==
    [kind |-> kind, prev |-> failures,
     backoff |-> BackoffDelay(kind, FailuresAfter(failures, kind)),
     duration |-> CycleDuration(rate, kind, secs, count,
                                FailuresAfter(failures, kind))]

NoCycle == [kind |-> "none", prev |-> 0, backoff |-> 0, duration |-> 0]

\* A health report that turns critical only at the failure count of the
\* long delay.
AIServerHealth_CriticalAtBackoff(failures) ==
    IF failures >= backoff_failures THEN "critical"
    ELSE IF failures >= 1 THEN "warning"
    ELSE "good"

\* "ai_server_health" of get_status.
AIServerHealth(failures) ==
    IF failures >= degraded_failures THEN "critical"
    ELSE IF failures >= 1 THEN "warning"
    ELSE "good"

InitClient ==
    /\ now = 0
    /\ current_task = "fire"
    /\ fire_on = 0
    /\ last_detection_time = NoTime
    /\ last_record = NoRecord
    /\ frame_rate = DefaultFrameRate
    /\ request_count = 0
    /\ consecutive_failures = 0
    /\ last_cycle = NoCycle
    /\ positive_tasks = {}

\* A client constructed with one of the frame rates, after
\* WarmClientRequests cycles that each got an answer without a target (the
\* clock is counted from the last of them).
InitClientConfigured ==
    /\ now = 0
    /\ current_task = "fire"
    /\ fire_on = 0
    /\ last_detection_time = NoTime
    /\ frame_rate \in FrameRates
    /\ request_count = WarmClientRequests
    /\ last_record = [timestamp |-> 0, task |-> "fire", target_detected |-> FALSE,
                      fire_on |-> 0, confidence |-> 0, result |-> {}]
    /\ consecutive_failures = 0
    /\ last_cycle = NoCycle
    /\ positive_tasks = {}

clientHealth == <<frame_rate, request_count, consecutive_failures,
                  last_cycle, positive_tasks>>

notClient == <<supVars, workerVars, thrVars, lifeVars, dashVars>>

\* Time passes (the sleeps of the loop, a blocked request).
Tick ==
    /\ \E d \in TimeSteps :
        /\ now + d <= Horizon
        /\ (now + d) % (SecondsPerDay * TicksPerSecond)
              <= MaxExtraSeconds * TicksPerSecond
        /\ now' = now + d
    /\ UNCHANGED <<current_task, fire_on, last_detection_time, last_record,
                   clientHealth>>
    /\ UNCHANGED notClient

\* One successful cycle: _send_to_ai_server takes the task from the
\* dashboard and gets the worker's answer for that task's model, then
\* _process_detection_result handles it. The record keeps the detections
\* of the answer next to what the client made of them.
ProcessDetectionResult ==
    /\ request_count < WarmClientRequests + MaxCycles
    /\ \E task \in Tasks, secs \in RequestSeconds("ok") :
        \E raw \in RawResults(task) :
            LET detections == ProcessYoloResults(raw, request_threshold)
                targets == TargetDetections(task, detections)
                target_detected == targets # {}
                on == FireOnAfter(fire_on, target_detected, now, last_detection_time)
            IN  /\ current_task' = task
                /\ fire_on' = on
                /\ last_detection_time' = IF target_detected THEN now
                                          ELSE last_detection_time
                /\ last_record' = [timestamp |-> now, task |-> task,
                                   target_detected |-> target_detected,
                                   fire_on |-> on,
                                   confidence |-> MaxConfidence(targets),
                                   result |-> detections]
                /\ positive_tasks' = IF target_detected
                                     THEN positive_tasks \cup {task}
                                     ELSE positive_tasks
                /\ last_cycle' = CycleRecord(frame_rate, "ok", secs,
                                             request_count + 1, consecutive_failures)
    /\ request_count' = request_count + 1
    /\ consecutive_failures' = FailuresAfter(consecutive_failures, "ok")
    /\ now' = now
    /\ UNCHANGED frame_rate
    /\ UNCHANGED notClient

\* One cycle whose call fails: the task is taken from the dashboard, the
\* request ends in another status or in an exception, _send_to_ai_server
\* sleeps as its except branch says and returns None, and the loop pauses.
FailedCycle ==
    /\ request_count < WarmClientRequests + MaxCycles
    /\ \E task \in Tasks, kind \in CallOutcomes \ {"ok"} :
        \E secs \in RequestSeconds(kind) :
            /\ current_task' = task
            /\ last_cycle' = CycleRecord(frame_rate, kind, secs,
                                         request_count + 1, consecutive_failures)
            /\ consecutive_failures' = FailuresAfter(consecutive_failures, kind)
    /\ request_count' = request_count + 1
    /\ UNCHANGED <<now, fire_on, last_detection_time, last_record, frame_rate,
                   positive_tasks>>
    /\ UNCHANGED notClient

\* The cycles that get an answer, with the clock running between them: the
\* alarm logic.
NextClient ==
    \/ Tick
    \/ ProcessDetectionResult

\* The cycles of the capture loop, answered or failed, with the clock the
\* alarm logic reads held still: the failure count and the delays.
NextClientHealth ==
    \/ ProcessDetectionResult
    \/ FailedCycle

\* The client right after a cycle whose answer held a fire detection has
\* raised the alarm (the first cycle followed, at the configured rate).
InitClientAlarmed ==
    /\ now = 0
    /\ current_task = "fire"
    /\ fire_on = 1
    /\ last_detection_time = 0
    /\ frame_rate = DefaultFrameRate
    /\ request_count = WarmClientRequests + 1
    /\ \E raw \in RawResults("fire") :
          LET detections == ProcessYoloResults(raw, request_threshold)
              targets == TargetDetections("fire", detections)
          IN  /\ targets # {}
              /\ last_record = [timestamp |-> 0, task |-> "fire",
                                target_detected |-> TRUE, fire_on |-> 1,
                                confidence |-> MaxConfidence(targets),
                                result |-> detections]
    /\ consecutive_failures = 0
    /\ last_cycle = CycleRecord(DefaultFrameRate, "ok", 0,
                                WarmClientRequests + 1, 0)
    /\ positive_tasks = {"fire"}

\* The cycles of the capture loop, answered or failed, with the clock
\* running between them: the alarm flag while the worker is out.
NextClientOutage ==
    \/ Tick
    \/ ProcessDetectionResult
    \/ FailedCycle

-----------------------------------------------------------------------------
(* Capture client: start(), stop() and the threads of _capture_loop.  The  *)
(* position of every loop thread is followed here; the data a cycle works  *)
(* on (counters, alarm flag, records) is followed by the actions above.    *)

\* The threads start() can create; a thread that has ended leaves its place
\* to a new one.
CaptureThreads == {1, 2}
NoThread == 0

\* A thread that start() has not created.
NoLoop == [pc |-> "unborn", last |-> "none"]

\* _capture_frame: a camera that has been released yields no frame; an open
\* camera or a test image yields one unless the read fails.
CaptureOutcomes(laptop, cam) ==
    IF laptop /\ cam = "released" THEN {"fail"} ELSE {"ok", "fail"}

\* What the three stages of a cycle can end in.  The processing stage raises
\* when the answer is not a JSON object (result.get in the log line of the
\* loop); everything else it calls catches its own exceptions.
StageOutcomes(pc, laptop, cam) ==
    CASE pc = "capture" -> CaptureOutcomes(laptop, cam)
      [] pc = "request" -> {"ok", "fail"}
      [] pc = "process" -> {"ok", "raise"}
      [] OTHER          -> {"ok"}

\* A loop that an exception leaves.
LoopNext_ErrorEndsLoop(pc, outcome) ==
    CASE pc = "capture" -> IF outcome = "ok" THEN "request" ELSE "sleep"
      [] pc = "request" -> IF outcome = "ok" THEN "process" ELSE "pause"
      [] pc = "process" -> IF outcome = "ok" THEN "sleep" ELSE "done"
      [] pc = "pause"   -> "sleep"
      [] OTHER          -> "check"

\* The body of the while loop of _capture_loop: where a thread goes from a
\* position.  No frame: straight to the wait for the next frame.  No result:
\* time.sleep(2), then the wait.  An exception: the except clause of the
\* loop, time.sleep(1), then the loop test.
LoopNext(pc, outcome) ==
    CASE pc = "capture" -> IF outcome = "ok" THEN "request" ELSE "sleep"
      [] pc = "request" -> IF outcome = "ok" THEN "process" ELSE "pause"
      [] pc = "process" -> IF outcome = "ok" THEN "sleep" ELSE "recover"
      [] pc = "pause"   -> "sleep"
      [] OTHER          -> "check"

\* How the cycle is remembered once a stage has ended it.
CycleResult(pc, outcome, last) ==
    CASE pc = "capture" /\ outcome = "fail"  -> "capture_failed"
      [] pc = "request" /\ outcome = "fail"  -> "call_failed"
      [] pc = "process" /\ outcome = "raise" -> "loop_error"
      [] pc = "process" /\ outcome = "ok"    -> "ok"
      [] OTHER                               -> last

\* The positions in which a thread can stay longer than the five seconds of
\* join(timeout=5): the requests to the dashboard and to the worker
\* (timeouts of 3, 15 and 5 seconds) and the sleeps.
BlockingPositions == {"request", "process", "pause", "sleep"}

\* self.capture_thread.join(timeout=5) returns with the thread still alive.
JoinMayTimeOut(pc) == pc \in BlockingPositions

InitLifecycle ==
    /\ use_laptop_camera = FALSE
    /\ is_running = FALSE
    /\ camera = "none"
    /\ capture_thread = NoThread
    /\ loops = [t \in CaptureThreads |-> NoLoop]
    /\ api_pc = "idle"

\* A client constructed for test images or for the laptop camera.
InitLifecycleAnyCamera ==
    /\ use_laptop_camera \in BOOLEAN
    /\ is_running = FALSE
    /\ camera = "none"
    /\ capture_thread = NoThread
    /\ loops = [t \in CaptureThreads |-> NoLoop]
    /\ api_pc = "idle"

notLife == <<supVars, workerVars, thrVars, clientVars, dashVars>>

\* start(): _initialize_camera, then is_running = True and a new thread,
\* whatever threads exist already.  Without a working laptop camera start()
\* returns False before that.
Start ==
    /\ api_pc = "idle"
    /\ \E camera_ok \in BOOLEAN :
        /\ ~use_laptop_camera => camera_ok
        /\ IF camera_ok
           THEN \E t \in CaptureThreads :
                   /\ loops[t].pc \in {"unborn", "done"}
                   /\ camera' = IF use_laptop_camera THEN "open" ELSE camera
                   /\ is_running' = TRUE
                   /\ capture_thread' = t
                   /\ loops' = [loops EXCEPT ![t] = [pc |-> "check", last |-> "none"]]
           ELSE /\ camera' = "none"
                /\ UNCHANGED <<is_running, capture_thread, loops>>
    /\ UNCHANGED <<use_laptop_camera, api_pc>>
    /\ UNCHANGED notLife

\* stop(): self.is_running = False, then the join if the thread is alive.
StopBegin ==
    /\ api_pc = "idle"
    /\ is_running' = FALSE
    /\ api_pc' = IF capture_thread # NoThread /\ loops[capture_thread].pc # "done"
                 THEN "join" ELSE "release"
    /\ UNCHANGED <<use_laptop_camera, camera, capture_thread, loops>>
    /\ UNCHANGED notLife

\* stop(): join(timeout=5) returns, the thread has ended or the time is up.
StopJoin ==
    /\ api_pc = "join"
    /\ \/ loops[capture_thread].pc = "done"
       \/ JoinMayTimeOut(loops[capture_thread].pc)
    /\ api_pc' = "release"
    /\ UNCHANGED <<use_laptop_camera, is_running, camera, capture_thread, loops>>
    /\ UNCHANGED notLife

\* stop(): if self.camera: self.camera.release(); stop() returns.
StopRelease ==
    /\ api_pc = "release"
    /\ camera' = IF camera = "open" THEN "released" ELSE camera
    /\ api_pc' = "idle"
    /\ UNCHANGED <<use_laptop_camera, is_running, capture_thread, loops>>
    /\ UNCHANGED notLife

\* while self.is_running: a cycle begins, or the thread ends.
LoopTest(t) ==
    /\ loops[t].pc = "check"
    /\ loops' = [loops EXCEPT ![t].pc = IF is_running THEN "capture" ELSE "done"]
    /\ UNCHANGED <<use_laptop_camera, is_running, camera, capture_thread, api_pc>>
    /\ UNCHANGED notLife

\* One stage of the cycle: _capture_frame, _send_to_ai_server, the handling
\* of the result, the pause after a failed call, the wait for the next frame,
\* the sleep of the except clause.
LoopStage(t) ==
    /\ loops[t].pc \in {"capture", "request", "process", "pause", "sleep", "recover"}
    /\ \E outcome \in StageOutcomes(loops[t].pc, use_laptop_camera, camera) :
        loops' = [loops EXCEPT ![t] =
                     [pc   |-> LoopNext(loops[t].pc, outcome),
                      last |-> CycleResult(loops[t].pc, outcome, loops[t].last)]]
    /\ UNCHANGED <<use_laptop_camera, is_running, camera, capture_thread, api_pc>>
    /\ UNCHANGED notLife

NextLifecycle ==
    \/ Start
    \/ StopBegin
    \/ StopJoin
    \/ StopRelease
    \/ \E t \in CaptureThreads :
        \/ LoopTest(t)
        \/ LoopStage(t)

-----------------------------------------------------------------------------
(* Dashboard: fire_detection_dashboard.py, the task and the statistics     *)

\* Number of rows of fire_detections the dashboard is followed for.
MaxRows == 3

\* "threshold": 0.1 of process_test_image, in percent.
test_threshold == 10

ESP32_DEVICE == "ESP32_CAM_SIM_001"
TEST_DEVICE == "DASHBOARD_TEST"
Devices == {ESP32_DEVICE, TEST_DEVICE}

\* What POST /api/switch-task can name: the keys of task_models and a name
\* that is none of them.
SwitchRequests == Tasks \cup {"smoke"}

\* A row of device_status; a device without a row reads as zeros through the
\* COALESCE of the statements that write it.
DeviceRow(status) ==
    [status |-> status, total_detections |-> 0, fire_alerts |-> 0,
     fire_total_detections |-> 0, fire_alerts_count |-> 0,
     leaves_total_detections |-> 0, leaves_alerts_count |-> 0]

\* INSERT OR REPLACE INTO device_status (..., total_detections, fire_alerts,
\* {task}_total_detections, {task}_alerts_count): the row is replaced, the
\* columns that are not named take their default.
ReplaceDeviceRow(old, task, target_detected) ==
    LET hit == IF target_detected THEN 1 ELSE 0
    IN  [status |-> "ACTIVE",
         total_detections |-> old.total_detections + 1,
         fire_alerts |-> old.fire_alerts + hit,
         fire_total_detections |->
             IF task = "fire" THEN old.fire_total_detections + 1 ELSE 0,
         fire_alerts_count |->
             IF task = "fire" THEN old.fire_alerts_count + hit ELSE 0,
         leaves_total_detections |->
             IF task = "leaves" THEN old.leaves_total_detections + 1 ELSE 0,
         leaves_alerts_count |->
             IF task = "leaves" THEN old.leaves_alerts_count + hit ELSE 0]

\* The counters kept next to the table: one more row under the task, one
\* more alert if the target was detected.
RecordedAfter(counts, task, target_detected) ==
    [counts EXCEPT ![task] =
        [total  |-> @.total + 1,
         alerts |-> @.alerts + (IF target_detected THEN 1 ELSE 0)]]

\* Statistics that count the rows of every task.
DetectionStatistics_AllTasks(task, table) ==
    [current_task |-> task,
     total_detections |-> Len(table),
     fire_alerts |-> Cardinality({i \in DOMAIN table : table[i].fire_detected})]

\* get_detection_statistics: SELECT COUNT(*) FROM fire_detections WHERE
\* timestamp > ? AND task = ? (and: AND fire_detected = 1).  Every row
\* followed here is younger than the 24 hours of the cutoff.
DetectionStatistics(task, table) ==
    LET rows == {i \in DOMAIN table : table[i].task = task}
    IN  [current_task |-> task,
         total_detections |-> Cardinality(rows),
         fire_alerts |-> Cardinality({i \in rows : table[i].fire_detected})]

\* GET /api/statistics
GetDetectionStatistics == DetectionStatistics(dashboard_task, fire_detections)

\* The target test of _store_test_result: a detection of the target class
\* whose confidence is above max_confidence, which starts at 0.0.
TestTargetDetected(task, detections) ==
    \E d \in detections : IsTarget(task, d) /\ d.confidence > 0

InitDashboard ==
    /\ dashboard_task = "fire"
    /\ fire_detections = <<>>
    /\ device_status = [d \in Devices |->
                          IF d = ESP32_DEVICE THEN DeviceRow("ACTIVE")
                          ELSE DeviceRow("ABSENT")]
    /\ test_pending = "none"
    /\ recorded = [t \in Tasks |-> [total |-> 0, alerts |-> 0]]

notDash == <<supVars, workerVars, thrVars, clientVars, lifeVars>>

\* POST /api/switch-task: set_current_task takes a key of task_models and
\* refuses anything else.
SetCurrentTask ==
    /\ \E task \in SwitchRequests :
        dashboard_task' = IF task \in Tasks THEN task ELSE dashboard_task
    /\ UNCHANGED <<fire_detections, device_status, test_pending, recorded>>
    /\ UNCHANGED notDash

\* POST /api/esp32-notification: _store_esp32_detection stores the record
\* under the task the client names in it, then _update_esp32_device_status
\* sets the status from fire_on.
ESP32Notification ==
    /\ Len(fire_detections) < MaxRows
    /\ \E task \in Tasks, fire_detected \in BOOLEAN, on \in {0, 1} :
        /\ fire_detections' = Append(fire_detections,
                                     [task |-> task, fire_detected |-> fire_detected])
        /\ device_status' =
              [device_status EXCEPT ![ESP32_DEVICE] =
                  [ReplaceDeviceRow(@, task, fire_detected) EXCEPT
                      !.status = IF on = 1 THEN "ACTIVE" ELSE "OFFLINE"]]
        /\ recorded' = RecordedAfter(recorded, task, fire_detected)
    /\ UNCHANGED <<dashboard_task, test_pending>>
    /\ UNCHANGED notDash

\* POST /api/test-image, process_test_image up to the request: the image
\* goes to the worker with the model of the current task.
ProcessTestImage ==
    /\ test_pending = "none"
    /\ Len(fire_detections) < MaxRows
    /\ test_pending' = dashboard_task
    /\ UNCHANGED <<dashboard_task, fire_detections, device_status, recorded>>
    /\ UNCHANGED notDash

\* process_test_image from the answer on: a 200 answer is stored by
\* _store_test_result under the task that is current then; any other end of
\* the request stores nothing.
StoreTestResult ==
    /\ test_pending # "none"
    /\ \E answered \in BOOLEAN :
        IF answered
        THEN \E raw \in RawResults(test_pending) :
                LET detections == ProcessYoloResults(raw, test_threshold)
                    target_detected == TestTargetDetected(dashboard_task, detections)
                IN  /\ fire_detections' =
                          Append(fire_detections,
                                 [task |-> dashboard_task,
                                  fire_detected |-> target_detected])
                    /\ device_status' =
                          [device_status EXCEPT ![TEST_DEVICE] =
                              ReplaceDeviceRow(@, dashboard_task, target_detected)]
                    /\ recorded' = RecordedAfter(recorded, dashboard_task,
                                                 target_detected)
        ELSE UNCHANGED <<fire_detections, device_status, recorded>>
    /\ test_pending' = "none"
    /\ UNCHANGED dashboard_task
    /\ UNCHANGED notDash

\* _update_device_statuses of the background thread: a device not seen for
\* 30 seconds is set OFFLINE, the simulator's row is set ACTIVE.
UpdateDeviceStatuses ==
    /\ \E stale \in BOOLEAN :
        device_status' =
            [d \in Devices |->
                IF d = ESP32_DEVICE
                THEN [device_status[d] EXCEPT !.status = "ACTIVE"]
                ELSE IF stale /\ device_status[d].status = "ACTIVE"
                     THEN [device_status[d] EXCEPT !.status = "OFFLINE"]
                     ELSE device_status[d]]
    /\ UNCHANGED <<dashboard_task, fire_detections, test_pending, recorded>>
    /\ UNCHANGED notDash

NextDashboard ==
    \/ SetCurrentTask
    \/ ESP32Notification
    \/ ProcessTestImage
    \/ StoreTestResult
    \/ UpdateDeviceStatuses

-----------------------------------------------------------------------------
(* Specifications                                                          *)

Init ==
    /\ InitSup /\ InitWorker /\ InitThreads /\ InitClient
    /\ InitLifecycle /\ InitDashboard

\* The supervisor with its managed processes.
SpecSupervisor == Init /\ [][NextSup]_vars

\* The supervisor whose monitor thread keeps running: its sleeps, probes,
\* waits and start calls all return (each has a timeout), so a step of the
\* pass that can be taken is taken.
MonitorStep ==
    \/ MonitorWake
    \/ MonitorScanAlive
    \/ MonitorProbe
    \/ MonitorScanDead
    \/ MonitorRestartDead
    \/ MonitorCheck
    \/ MonitorKill
    \/ MonitorRestartUnresponsive
SpecSupervisorLive == Init /\ [][NextSup]_vars /\ WF_vars(MonitorStep)

\* The supervisor when launch() is interrupted and shuts the system down.
SpecSupervisorShutdown == Init /\ [][NextSupShutdown]_vars

\* The worker handling detect calls one at a time.
SpecWorker == Init /\ [][NextWorker]_vars

\* The worker handling detect calls concurrently.
InitConcurrent ==
    /\ InitSup /\ InitWarmWorker /\ InitThreads /\ InitClient
    /\ InitLifecycle /\ InitDashboard
SpecWorkerConcurrent == InitConcurrent /\ [][NextWorkerConcurrent]_vars

\* One capture client: its alarm logic.
InitConfigured ==
    /\ InitSup /\ InitWorker /\ InitThreads /\ InitClientConfigured
    /\ InitLifecycle /\ InitDashboard
SpecClient == InitConfigured /\ [][NextClient]_vars

\* One capture client: its failure count and its delays.
SpecClientHealth == InitConfigured /\ [][NextClientHealth]_vars

\* One capture client with its alarm raised: the flag over answered and
\* failed cycles.
InitAlarmed ==
    /\ InitSup /\ InitWorker /\ InitThreads /\ InitClientAlarmed
    /\ InitLifecycle /\ InitDashboard
SpecClientOutage == InitAlarmed /\ [][NextClientOutage]_vars

\* One capture client: the calls of start() and stop() and its loop threads.
InitAnyCamera ==
    /\ InitSup /\ InitWorker /\ InitThreads /\ InitClient
    /\ InitLifecycleAnyCamera /\ InitDashboard
SpecClientLifecycle == InitAnyCamera /\ [][NextLifecycle]_vars

\* The dashboard with the notifications and test images it receives.
SpecDashboard == Init /\ [][NextDashboard]_vars

-----------------------------------------------------------------------------
(* Claims about the supervisor                                             *)

\* C1: with max_ai_server_restarts = 3 and a worker that only crashes (every
\* start comes up, no probe fails), the monitor relaunches once per crash
\* for the first three crashes and not at all afterwards: at any moment the
\* number of relaunches is at most the number of crashes, and at most 3.
C1_OneRelaunchPerCrash ==
    ~fault_seen =>
        /\ relaunches <= crashes
        /\ relaunches <= max_ai_server_restarts

\* C2: the restart of an alive-but-unresponsive worker (terminate, then
\* relaunch) raises the restart counter by exactly 1.
C2_UnresponsiveRestartCountsOne ==
    [][(mon_pc = "restart_unresponsive" /\ mon_pc' = "sleep")
        => ai_server_restart_count' = ai_server_restart_count + 1]_vars

\* C3: once the restart counter has reached the maximum, no step of the
\* supervisor spawns a process, relaunches the worker or terminates one.
C3_NoRecoveryWhenExhausted ==
    [][ai_server_restart_count = max_ai_server_restarts
        => /\ Len(proc') = Len(proc)
           /\ relaunches' = relaunches
           /\ monitor_killed' = monitor_killed]_vars

\* C3 witness: the budget is spent and the pass has found the worker alive
\* but failing its probe, right before the unresponsive check.
C3_Witness ==
    /\ ai_server_restart_count = max_ai_server_restarts
    /\ mon_pc = "scan" /\ idx > Len(iter_list)
    /\ AIServerProcessRunning /\ ~ai_server_responsive
    /\ \E i \in DOMAIN processes :
          processes[i].name = AI_SERVER /\ processes[i].pid \in probe_failed

\* C4: the monitor terminates a live worker only after a probe of that same
\* process has failed (the code has no threshold above one failed probe).
C4_KillOnlyAfterFailedProbe == monitor_killed \subseteq probe_failed

-----------------------------------------------------------------------------
(* Claims about the alarm flag of the capture client                       *)

\* C5: once a positive result has set the flag it has a last-positive time,
\* and the flag goes from set to clear only in a step that processes a
\* negative result more than the grace window (30 s) after the last positive
\* result; so negative results within the window leave it set.
C5_FlagHeldWithinGrace ==
    [][/\ fire_on' = 1 => last_detection_time' # NoTime
       /\ (fire_on = 1 /\ fire_on' = 0)
            => /\ now' = now
               /\ last_record'.timestamp = now
               /\ ~last_record'.target_detected
               /\ now - last_detection_time > GraceSeconds * TicksPerSecond]_vars

\* C5 witness: a negative result has just been processed exactly 30 s after
\* the last positive one and the flag is still set.
C5_Witness ==
    /\ fire_on = 1
    /\ last_record.timestamp = now
    /\ ~last_record.target_detected
    /\ now - last_detection_time = GraceSeconds * TicksPerSecond

\* C6: a negative result processed with the flag set and at least one whole
\* second more than the grace window after the last positive result clears
\* the flag, however long the time since the last positive result.
C6_ClearedAfterGrace ==
    [][(/\ fire_on = 1
        /\ now' = now
        /\ last_record'.timestamp = now
        /\ ~last_record'.target_detected
        /\ now - last_detection_time >= (GraceSeconds + 1) * TicksPerSecond)
        => fire_on' = 0]_vars

-----------------------------------------------------------------------------
(* Claims about the worker's maintenance schedule                          *)

\* C7 as amended: the scheduled cleanup runs in a detect call exactly when
\* the counter value reached by the call is a multiple of 20; a call runs a
\* GC pass at all exactly when that holds, or the call attempts a reload, or
\* the call is processed successfully with the counter above 200.
C7_GCSchedule ==
    call.n > 0 =>
        /\ "interval" \in call.gc <=> call.n % gc_interval = 0
        /\ call.gc # {} <=>
              \/ call.n % gc_interval = 0
              \/ call.reloaded
              \/ call.status = 200 /\ call.n > post_gc_threshold

\* C7 witness: call 201 is processed successfully and runs a GC pass
\* although 201 is no multiple of 20 and no reload is due.
C7_Witness ==
    /\ call.n = post_gc_threshold + 1
    /\ call.status = 200
    /\ ~call.reloaded
    /\ call.gc = {"post"}

\* C7 as stated (for runs in which no reload raises): a GC pass runs during
\* a call if and only if the counter value reached is a multiple of 20.
C7_GCOnlyOnInterval ==
    (call.n > 0 /\ reload_failures = 0) =>
        (call.gc # {} <=> call.n % gc_interval = 0)

\* C8: while no reload has raised, a call reloads the models exactly when
\* the counter value it reaches is a multiple of 100, and the baseline is
\* the latest multiple of 100 reached.
C8_ReloadSchedule ==
    reload_failures = 0 =>
        /\ call.n > 0 => (call.reloaded <=> call.n % reload_interval = 0)
        /\ last_model_reload
              = (request_counter \div reload_interval) * reload_interval

\* C8 witness: the second reload, at call 200, after a first one at 100.
C8_Witness ==
    /\ reload_failures = 0
    /\ call.n = 2 * reload_interval
    /\ call.reloaded /\ call.reload_ok
    /\ last_model_reload = 2 * reload_interval

\* C9: after a call that reloaded, every model that was in the table before
\* the reload and whose own load did not fail is in the table.
C9_ReloadKeepsWorkingModels ==
    call.reloaded => (call.before \ call.failed) \subseteq models

\* C10: a concurrent detect call that asks for a model that is in the table
\* both before and after a reload is never answered "not found" and never
\* misses the model at lookup.
C10_NoPartialTable ==
    \A t \in Threads :
        (thr[t].pc = "done" /\ thr[t].model \in Artifacts)
            => thr[t].status = "ok"

\* C11: under any interleaving of concurrent detect calls, once the calls
\* begun have all completed the request counter has advanced by their number
\* (no lost update), every multiple of the GC interval reached has run the
\* scheduled cleanup exactly once, and the reload threshold reached has
\* begun exactly one reload.
C11_CountersExact ==
    (\A t \in Threads : thr[t].pc = "idle") =>
        /\ request_counter = WarmRequests + started
        /\ gc_runs = Cardinality({n \in (WarmRequests + 1)..(WarmRequests + started) :
                                     n % gc_interval = 0})
        /\ reloads = Cardinality({n \in (WarmRequests + 1)..(WarmRequests + started) :
                                     n % reload_interval = 0})

\* C15: a reload attempt that failed is not followed by another attempt on
\* the next detect call; the next attempt comes only once reload_interval
\* further requests have accumulated since the failed one.
C15_NoImmediateRetry ==
    [][(call.reloaded /\ ~call.reload_ok /\ request_counter' = request_counter + 1)
         => ~call'.reloaded]_vars

\* C16: every relaunch attempt made by the monitor, whether the worker
\* comes up or fails to start, increments the restart counter by exactly 1.
C16_EveryAttemptCounts ==
    [][relaunches' = relaunches + 1
         => ai_server_restart_count' = ai_server_restart_count + 1]_vars

\* C17: over a whole run the restart counter never decreases (it is not
\* reset when the worker is healthy again) and never exceeds
\* max_ai_server_restarts.
C17_CounterMonotoneAndBounded ==
    [][/\ ai_server_restart_count' >= ai_server_restart_count
       /\ ai_server_restart_count' <= max_ai_server_restarts]_vars

\* The counter is at its maximum and the worker has answered its probe.
C17_Witness ==
    /\ ai_server_restart_count = max_ai_server_restarts
    /\ mon_pc = "sleep"
    /\ ai_server_responsive
    /\ AIServerProcessRunning

\* C18: restarting an alive but unresponsive worker, the monitor first asks
\* it to terminate and waits the bounded grace period; it kills only when
\* that wait expired; and the replacement is launched only after the
\* termination step, which itself launches nothing.
C18_GracefulThenKillThenLaunch ==
    [][/\ (mon_pc = "kill" /\ mon_pc' # "kill") =>
            /\ mon_pc' = "restart_unresponsive"
            /\ Len(proc') = Len(proc)
            /\ last_termination'.pids =
                  {processes[i].pid : i \in {j \in DOMAIN processes :
                                                processes[j].name = AI_SERVER}}
            /\ \A p \in last_termination'.pids :
                  LET st == last_termination'.steps[p]
                  IN  /\ st[1] = "terminate"
                      /\ \A k \in DOMAIN st :
                            st[k] = "kill" => (k > 1 /\ st[k - 1] = "wait_expired")
                      /\ ~IsAlive(p)'
       /\ (mon_pc = "restart_unresponsive" /\ Len(proc') > Len(proc)) =>
            /\ \A i \in DOMAIN processes : processes[i].name # AI_SERVER
            /\ last_termination.pids # {}
            /\ \A p \in last_termination.pids : ~IsAlive(p)]_vars

\* An unresponsive worker has been asked to terminate, its wait expired, it
\* has been killed, and its replacement is about to be launched.
C18_Witness ==
    /\ mon_pc = "restart_unresponsive"
    /\ \E p \in last_termination.pids :
          /\ p \in monitor_killed
          /\ last_termination.steps[p] = <<"terminate", "wait_expired", "kill">>

\* C19: in a pass that finds the worker stopped with the restart budget
\* exhausted, the monitor prints a report about the worker that it prints
\* neither for a worker exit it still recovers from nor for an unresponsive
\* or degraded worker.
C19_DistinctTerminalReport ==
    (/\ mon_pc = "sleep"
     /\ ai_server_restart_count = max_ai_server_restarts
     /\ <<"stopped", AI_SERVER>> \in printed
     /\ <<"attempting_restart", AI_SERVER>> \notin printed)
    => \E m \in printed :
          /\ m \notin {<<"stopped", DASHBOARD>>, <<"stopped", ESP32_SIM>>}
          /\ m \notin DeadReports(AI_SERVER, 0)
          /\ m \notin ProbeReports("error") \cup ProbeReports("bad_status")
          /\ \A running \in {<<>>, <<DASHBOARD>>, <<ESP32_SIM>>,
                             <<DASHBOARD, ESP32_SIM>>} :
                m \notin CheckReports(running, <<AI_SERVER>>, TRUE)

-----------------------------------------------------------------------------
(* Claims about the capture client's failure handling                      *)

\* C12: after every worker call that succeeds consecutive_failures is
\* exactly 0, and after every call that fails (timeout, connection error,
\* status other than success) it is exactly its previous value plus 1.
C12_FailureCount ==
    [][request_count' = request_count + 1 =>
          IF last_cycle'.kind = "ok"
          THEN consecutive_failures' = 0
          ELSE consecutive_failures' = consecutive_failures + 1]_vars

\* A call has succeeded after two or more failed ones and the count is 0
\* again.
C12_Witness ==
    /\ last_cycle.kind = "ok"
    /\ last_cycle.prev >= 2
    /\ consecutive_failures = 0

\* C13: after any failed cycle that leaves consecutive_failures at 3 or
\* more, whatever the kind of failure, the client has slept the extra
\* load-shedding delay (backoff_delay) before the next cycle.
C13_BackoffFromThreeFailures ==
    (last_cycle.kind \in CallOutcomes \ {"ok"}
        /\ consecutive_failures >= degraded_failures)
    => last_cycle.backoff = backoff_delay

\* C14: for every frame rate, a failed cycle that leaves the client with 3
\* or more consecutive failures lasts strictly longer than the base
\* inter-frame interval.
C14_LongerThanFrameInterval ==
    (last_cycle.kind \in CallOutcomes \ {"ok"}
        /\ consecutive_failures >= degraded_failures)
    => last_cycle.duration > FrameInterval(frame_rate)

\* C20: alarm state is kept per task: the flag reported for a task is set
\* only if that task has had a positive result; a positive result of another
\* task neither sets nor prolongs it, and a task switch carries no flag over.
C20_AlarmPerTask ==
    (last_record # NoRecord /\ last_record.fire_on = 1)
    => last_record.task \in positive_tasks

-----------------------------------------------------------------------------
(* Claims about the classification of a result                             *)

\* C21: a detection result is classified as a target hit if and only if at
\* least one of its detections matches the current task's target class (class
\* id 0, or the class name compared without case) with confidence at or above
\* the threshold configured for that task, and the confidence recorded for
\* the hit is the maximum over the qualifying detections.
C21_TargetHit ==
    last_record # NoRecord =>
        LET task == last_record.task
            target == IF task = "fire" THEN "fire" ELSE "yellow"
            qualifying ==
                {d \in last_record.result :
                    /\ d.class_id = 0 \/ Lower(d.class) = target
                    /\ d.confidence >= TaskThreshold(task)}
        IN  /\ last_record.target_detected <=> qualifying # {}
            /\ last_record.target_detected =>
                    last_record.confidence = MaxConfidence(qualifying)

-----------------------------------------------------------------------------
(* Claims about the worker's status and error answers                      *)

\* C22: starting from a fresh worker, after exactly 100 detect calls handled
\* one at a time the status endpoint reports a request count of 100 and a
\* last-reload marker of 100.
C22_StatusAfter100Calls ==
    request_counter = reload_interval =>
        /\ GetStatus.request_count = reload_interval
        /\ GetStatus.last_model_reload = reload_interval

\* C23: a detect call answers 400 for bad input (a body that is not JSON, a
\* missing image, an image that does not decode) and for an unknown model
\* name, and 500 for any other failure during processing; in every error case
\* the model table is the one validation started with.
C23_ErrorStatuses ==
    call.n > 0 =>
        LET bad_input == call.kind \in {"not_json", "malformed_json", "json_null",
                                        "no_image", "bad_image"}
            unknown_model == call.model \notin call.table
        IN  /\ (bad_input \/ unknown_model) => call.status = 400
            /\ (~bad_input /\ ~unknown_model /\ call.kind = "infer_error")
                    => call.status = 500
            /\ call.status # 200 => models = call.table

-----------------------------------------------------------------------------
(* Claims about the capture client's delays and health report              *)

\* C26: after a failed cycle that leaves consecutive_failures below 3 the
\* client adds no extra delay: the cycle lasts the time the request took, or
\* the inter-frame interval if that is longer (it waits max(0, interval -
\* elapsed) and starts the next cycle).
C26_NoExtraDelayBelowThree ==
    (last_cycle.kind \in CallOutcomes \ {"ok"}
        /\ consecutive_failures < degraded_failures)
    => \E secs \in RequestSeconds(last_cycle.kind) :
          last_cycle.duration =
              IF secs * TicksPerSecond > FrameInterval(frame_rate)
              THEN secs * TicksPerSecond ELSE FrameInterval(frame_rate)

\* C27: the reported worker health is 'critical' in exactly the states where
\* consecutive_failures is 3 or more, 'warning' exactly when it is 1 or 2 and
\* 'good' exactly when it is 0; after a successful call it is 'good'.
C27_HealthReport ==
    LET health == AIServerHealth(consecutive_failures)
    IN  /\ health = "critical" <=> consecutive_failures >= 3
        /\ health = "warning" <=> consecutive_failures \in {1, 2}
        /\ health = "good" <=> consecutive_failures = 0
        /\ last_cycle.kind = "ok" => health = "good"

\* A call has succeeded right after the report was 'critical', and the
\* report is 'good'.
C27_Witness ==
    /\ last_cycle.kind = "ok"
    /\ AIServerHealth(last_cycle.prev) = "critical"
    /\ AIServerHealth(consecutive_failures) = "good"

-----------------------------------------------------------------------------
(* Claims about what the supervisor relaunches                             *)

\* C28: every process the supervisor manages (worker, dashboard, capture
\* client) that a monitoring pass observes to have exited is relaunched by
\* the supervisor while restart budget remains: the pass goes on to relaunch
\* it.
C28_EveryManagedProcessRelaunched ==
    [][(/\ main_pc = "monitoring" /\ mon_pc = "scan"
        /\ idx <= Len(iter_list)
        /\ ~IsAlive(iter_list[idx].pid)
        /\ <<mon_pc', idx'>> # <<mon_pc, idx>>
        /\ ai_server_restart_count < max_ai_server_restarts)
       => mon_pc' = "restart_dead"]_vars

-----------------------------------------------------------------------------
(* Claims about start(), stop() and the capture loop                       *)

\* C24: within one capture client instance at most one request to the worker
\* is in flight at any time, after any sequence of start() and stop() calls
\* (start() called twice, start() after a stop() whose join timed out).
C24_OneRequestInFlight ==
    Cardinality({t \in CaptureThreads : loops[t].pc = "request"}) <= 1

\* C25: after stop() the capture loop starts no new cycle once the cycle in
\* progress has ended (a cycle begins only while is_running is set), the
\* camera is released only when no loop is reading it, and it is released by
\* the time stop() returns.
C25_StopEndsLoopAndReleasesCamera ==
    [][/\ \A t \in CaptureThreads :
            (loops[t].pc = "check" /\ loops'[t].pc = "capture") => is_running
       /\ (camera = "open" /\ camera' = "released")
            => \A t \in CaptureThreads : loops[t].pc # "capture"
       /\ (api_pc = "release" /\ api_pc' = "idle") => camera' # "open"]_vars

\* C30: no failure of a single cycle (no frame, a failed call, an exception
\* while the result is handled) ends the capture loop: a loop thread ends
\* only at its loop test and only once is_running has been cleared, and a
\* loop test made while is_running is set starts a cycle.
C30_FailureNeverEndsLoop ==
    [][\A t \in CaptureThreads :
          /\ (loops[t].pc # "done" /\ loops'[t].pc = "done")
                => (loops[t].pc = "check" /\ ~is_running)
          /\ (loops[t].pc = "check" /\ loops'[t] # loops[t] /\ is_running)
                => loops'[t].pc = "capture"]_vars

\* A thread has begun a new cycle after a cycle that ended in the except
\* clause of the loop.
C30_Witness ==
    \E t \in CaptureThreads :
        /\ is_running
        /\ loops[t].pc = "capture"
        /\ loops[t].last = "loop_error"

-----------------------------------------------------------------------------
(* Claims about the dashboard's statistics                                 *)

\* C29: the statistics reported while a task is current count only the
\* detections recorded under that task (so the leaves total is 0 until a
\* leaves detection is recorded), and a switch of the task changes the
\* totals of no task (so fire -> leaves -> fire without a new detection
\* shows the fire total it showed before).
C29_PerTaskStatistics ==
    /\ [](/\ GetDetectionStatistics.current_task = dashboard_task
          /\ GetDetectionStatistics.total_detections
                = recorded[dashboard_task].total
          /\ GetDetectionStatistics.fire_alerts
                = recorded[dashboard_task].alerts)
    /\ [][dashboard_task' # dashboard_task =>
            \A t \in Tasks :
                DetectionStatistics(t, fire_detections')
                    = DetectionStatistics(t, fire_detections)]_vars

\* The task has been switched to leaves with fire detections stored and no
\* leaves detection: the statistics show a total of 0.
C29_Witness ==
    /\ dashboard_task = "leaves"
    /\ recorded["fire"].total > 0
    /\ recorded["leaves"].total = 0
    /\ GetDetectionStatistics.total_detections = 0

-----------------------------------------------------------------------------
(* Claims about the capture client's request timeout                       *)

\* C31: at the configured frame rate the timeout the capture client puts on
\* its detect request is strictly shorter than its cycle period
\* (1 / frame_rate), and so a cycle whose request ran into the timeout has
\* spent less than one period in the request.
C31_TimeoutShorterThanPeriod ==
    frame_rate = DefaultFrameRate
    => /\ request_timeout * TicksPerSecond < FrameInterval(frame_rate)
       /\ last_cycle.kind = "timeout"
            => \A secs \in RequestSeconds("timeout") :
                  secs * TicksPerSecond < FrameInterval(frame_rate)

-----------------------------------------------------------------------------
(* Claims about the per-device status record                               *)

\* C39: storing a detection for one task adds 1 to that task's total in the
\* device's status record (and to its alert count when the target was
\* detected) and leaves the other task's counters of the device unchanged,
\* so that for every device total_detections always equals
\* fire_total_detections plus leaves_total_detections.
C39_PerDeviceTaskCounters ==
    /\ [](\A d \in Devices :
            device_status[d].total_detections
                = device_status[d].fire_total_detections
                  + device_status[d].leaves_total_detections)
    /\ [][\A d \in Devices :
            device_status'[d].total_detections
                = device_status[d].total_detections + 1
            => LET row  == device_status[d]
                   row2 == device_status'[d]
                   stored == fire_detections'[Len(fire_detections')]
                   hit  == IF stored.fire_detected THEN 1 ELSE 0
               IN  IF stored.task = "fire"
                   THEN /\ row2.fire_total_detections
                              = row.fire_total_detections + 1
                        /\ row2.fire_alerts_count = row.fire_alerts_count + hit
                        /\ row2.leaves_total_detections
                              = row.leaves_total_detections
                        /\ row2.leaves_alerts_count = row.leaves_alerts_count
                   ELSE /\ row2.leaves_total_detections
                              = row.leaves_total_detections + 1
                        /\ row2.leaves_alerts_count
                              = row.leaves_alerts_count + hit
                        /\ row2.fire_total_detections
                              = row.fire_total_detections
                        /\ row2.fire_alerts_count = row.fire_alerts_count]_vars

-----------------------------------------------------------------------------
(* Claims about the worker's request counter                               *)

\* C40: every detect call raises the worker's request counter by exactly 1
\* and is evaluated for the scheduled cleanup and for the reload before its
\* input is validated, whatever status the call ends with (200, 400 or
\* 500), and the request count returned in a successful response is the
\* counter value of that call.  The first conjunct follows a call handled
\* alone, the second the calls of concurrent threads.
C40_EveryCallCounts ==
    /\ [][call' # call
            => /\ request_counter' = request_counter + 1
               /\ call'.n = request_counter'
               /\ ("interval" \in call'.gc) = DueForGC(call'.n)
               /\ call'.reloaded = DueForReload(call'.n, last_model_reload)]_vars
    /\ [][\A t \in Threads :
            /\ (thr[t].pc = "store_counter" /\ thr'[t].pc = "gc_check")
                  => request_counter' = request_counter + 1
            /\ (thr[t].pc = "done" /\ thr[t].status = "ok"
                    /\ thr'[t].pc = "idle")
                  => request_counter = thr[t].tmp + 1]_vars

-----------------------------------------------------------------------------
(* Claims about the supervisor's shutdown                                  *)

\* C32: when the running supervisor receives a shutdown signal (SIGINT or
\* SIGTERM), every managed process that is still running is terminated
\* (asked to terminate, waited on, force-killed if need be) before the
\* supervisor itself exits: at the supervisor's exit no process of the
\* table is alive.
C32_SignalStopsManagedProcesses ==
    [][(main_pc = "monitoring" /\ main_pc' = "exited")
        => \A i \in DOMAIN processes :
              proc'[processes[i].pid].status = "exited"]_vars

\* C35: start_ai_server returns a process handle only if a status probe
\* succeeded, within the 30 polls, at a poll at which the process was found
\* alive; if the process exits during startup or no probe succeeds within
\* the window it returns no handle, and in the timeout case the spawned
\* process has been asked to terminate.  A started worker is therefore put
\* in the table only while running, and one that is not put in the table
\* has exited or has been sent terminate().
C35_HandleOnlyAfterLiveProbe ==
    /\ [](\A d \in StartupTimes, o \in StartupTimes :
            LET out == StartAIServer(d, o)
                answered == o \in 1..startup_polls
                exited   == d \in 1..startup_polls
            IN  /\ out \in StartOutcomes
                /\ (out = "ok") <=> (answered /\ (~exited \/ o < d))
                /\ (exited /\ ~(answered /\ o < d)) => out = "died"
                /\ (~answered /\ ~exited) => out = "timeout")
    /\ [][(Len(proc') = Len(proc) + 1 /\ proc'[Len(proc')].name = AI_SERVER)
            => LET new == Len(proc')
                   listed == \E i \in DOMAIN processes' :
                                processes'[i].pid = new
               IN  /\ listed => proc'[new].status = "running"
                   /\ ~listed => proc'[new].status \in {"exited", "terminating"}]_vars

\* A relaunch has returned a handle, and another start has run into the
\* timeout: its process was sent terminate() and is not in the table.
C35_Witness ==
    /\ ai_server_restart_count >= 1
    /\ \E p \in DOMAIN proc :
          /\ proc[p].name = AI_SERVER
          /\ proc[p].status = "terminating"
          /\ \A i \in DOMAIN processes : processes[i].pid # p

\* C37: at every moment each process the supervisor has spawned is recorded
\* in its process table or has exited; consequently, once shutdown_system
\* has returned, no process spawned by the supervisor (workers of failed
\* start or restart attempts included) is still running.
C37_SpawnedIsListedOrExited ==
    /\ \A p \in DOMAIN proc :
          \/ \E i \in DOMAIN processes : processes[i].pid = p
          \/ proc[p].status = "exited"
    /\ main_pc = "shutdown_done"
          => \A p \in DOMAIN proc : proc[p].status = "exited"

\* C36: under any interleaving of the monitor thread with shutdown_system,
\* once shutdown_system has begun the monitor launches no new worker, and
\* once shutdown_system has returned the process table is empty and stays
\* empty.
C36_ShutdownStopsMonitor ==
    /\ [](main_pc = "shutdown_done" => processes = <<>>)
    /\ [][(main_pc = "shutdown" \/ main_pc = "shutdown_done")
            => /\ Len(proc') = Len(proc)
               /\ relaunches' = relaunches]_vars

-----------------------------------------------------------------------------
(* Claims about the monitor's pass                                         *)

\* C34: if the worker exits between the monitor's liveness test and the end
\* of the health probe of the same pass, the monitor handles the event as a
\* process exit: the failed probe does not send the pass into the
\* terminate-and-restart path for that process, and the exit leads to at
\* most one relaunch (the pass that finds the entry stopped relaunches the
\* worker once and does not relaunch it a second time).
C34_ExitDuringProbeIsAnExit ==
    /\ [][(mon_pc = "scan" /\ mon_pc' = "kill")
            => ~\E i \in DOMAIN processes :
                  /\ processes[i].name = AI_SERVER
                  /\ processes[i].pid \in exit_in_probe]_vars
    /\ [][(mon_pc = "restart_unresponsive" /\ mon_pc' = "sleep")
            => ~\E i \in DOMAIN iter_list :
                  /\ iter_list[i].name = AI_SERVER
                  /\ iter_list[i].pid \in exit_in_probe
                  /\ <<"restarted", AI_SERVER>> \in printed]_vars

\* C33: whenever the supervisor is monitoring, no worker is running and the
\* restart counter is below the maximum (also after a relaunch that failed
\* to come up), the monitor eventually makes another relaunch attempt,
\* unless the supervisor exits first.
C33_RelaunchUntilHealthyOrExhausted ==
    (/\ main_pc = "monitoring"
     /\ ai_server_restart_count < max_ai_server_restarts
     /\ \A p \in DOMAIN proc :
            proc[p].name = AI_SERVER => proc[p].status # "running")
    ~> (\/ mon_pc = "restart_dead"
        \/ mon_pc = "restart_unresponsive"
        \/ main_pc = "exited")

-----------------------------------------------------------------------------
(* Claims about the alarm flag while the worker gives no result            *)

\* C38: the alarm flag is cleared by the first cycle that ends after the
\* grace window has elapsed since the last positive result, whether that
\* cycle obtained a (negative) result from the worker or failed to obtain
\* one: a cycle that ends when the time since the last positive result is
\* past the window (by the client's own reading of it), and brings no
\* positive result itself, leaves the flag cleared.
C38_AlarmClearedAfterGrace ==
    [][(/\ request_count' = request_count + 1
        /\ fire_on = 1
        /\ last_detection_time' = last_detection_time
        /\ GraceElapsed(now, last_detection_time))
        => fire_on' = 0]_vars

====
